---- MODULE Spec2Model ----
(***************************************************************************)
(* State-machine model of the YouTube downloader scripts                   *)
(*   src/TY_To_mp3_or_mp4.py  (download_mp4, download_mp3 and helpers)     *)
(*   src/Link_to_YT.py        (download_youtube)                           *)
(* One behaviour is one job: a call of one of the three job functions on   *)
(* one stream catalog, one video title and one output directory.           *)
(* Strings are sequences of one-character strings, so that sanitising,     *)
(* suffixing, lower-casing and lexical comparison are computed.            *)
(***************************************************************************)
EXTENDS Integers, Sequences, FiniteSets, TLC

(* ------------------------------ bounds -------------------------------- *)
\* longest stream catalog the resolver returns
MaxStreams == 4
\* invalid answers the user gives to the resolution prompt at most
MaxPrompts == 2
\* highest numbered collision file name_<k>.<ext> that may pre-exist
MaxPre == 2

(* ------------------------- characters, strings ------------------------ *)
Digits == <<"0","1","2","3","4","5","6","7","8","9">>

IsDigit(c) == \E i \in 1..10 : Digits[i] = c

DigitVal(c) == (CHOOSE i \in 1..10 : Digits[i] = c) - 1

\* Unicode code point of the characters that occur in resolution labels and
\* in prompt answers (Python compares str by code point)
Ord(c) ==
    IF IsDigit(c) THEN 48 + DigitVal(c)
    ELSE CASE c = "P" -> 80
           [] c = "a" -> 97
           [] c = "b" -> 98
           [] c = "c" -> 99
           [] c = "k" -> 107
           [] c = "p" -> 112
           [] c = "s" -> 115
           [] OTHER   -> 0

\* str.lower() on one character
LowerChar(c) == IF c = "P" THEN "p" ELSE c

\* str.lower()
Lower(s) == [i \in 1..Len(s) |-> LowerChar(s[i])]

\* Python's s < t on str: lexicographic by code point
StrLess(s, t) ==
    \E i \in 1..(Len(t)) :
        /\ \A j \in 1..(i-1) : j <= Len(s) /\ s[j] = t[j]
        /\ \/ i = Len(s) + 1
           \/ i <= Len(s) /\ Ord(s[i]) < Ord(t[i])

RECURSIVE DigitsOf(_)
\* str(n) for n >= 0
DigitsOf(n) == IF n < 10 THEN <<Digits[n + 1]>>
               ELSE DigitsOf(n \div 10) \o <<Digits[(n % 10) + 1]>>

RECURSIVE IntOfDigits(_)
\* int("".join(filter(str.isdigit, s))): the number spelled by the digits of s
IntOfDigits(s) ==
    IF s = <<>> THEN 0
    ELSE LET c == s[Len(s)]
             r == IntOfDigits(SubSeq(s, 1, Len(s) - 1))
         IN IF IsDigit(c) THEN 10 * r + DigitVal(c) ELSE r

Range(s) == {s[i] : i \in 1..Len(s)}


\* the inverse of a sequence's order: StreamQuery.desc(), list[::-1]
Reverse(s) == [i \in 1..Len(s) |-> s[Len(s) + 1 - i]]

\* sorted(s, key=...): ascending and stable; key[i] is the key of s[i]
SortedBy(s, key) ==
    LET pos(i) == 1 + Cardinality({j \in 1..Len(s) :
                        \/ key[j] < key[i]
                        \/ key[j] = key[i] /\ j < i})
    IN [p \in 1..Len(s) |-> s[CHOOSE i \in 1..Len(s) : pos(i) = p]]

RECURSIVE SortedStrDesc(_)
\* sorted(S, reverse=True) on a set of str: descending in Python's str order
SortedStrDesc(S) ==
    IF S = {} THEN <<>>
    ELSE LET m == CHOOSE x \in S : \A y \in S : ~StrLess(x, y)
         IN <<m>> \o SortedStrDesc(S \ {m})

(* ------------------------------ file names ---------------------------- *)
video_temp_mp4 == <<"v","i","d","e","o","_","t","e","m","p",".","m","p","4">>
audio_temp_m4a == <<"a","u","d","i","o","_","t","e","m","p",".","m","4","a">>
DotMp4 == <<".","m","p","4">>
DotMp3 == <<".","m","p","3">>

\* the characters sanitize_filename replaces
invalid_chars == {"<", ">", ":", "\"", "/", "\\", "|", "?", "*"}

\* the length sanitize_filename truncates to
SanitizeLen == 50

sanitize_filename(filename) ==
    LET n == IF Len(filename) < SanitizeLen THEN Len(filename) ELSE SanitizeLen
    IN [i \in 1..n |-> IF filename[i] \in invalid_chars THEN "_" ELSE filename[i]]

\* os.path.splitext on a file name without directory part: the extension
\* starts at the last dot, unless only dots precede it
splitext(filepath) ==
    LET dots == {i \in 1..Len(filepath) : filepath[i] = "."}
        last == CHOOSE i \in dots : \A j \in dots : j <= i
    IN IF dots = {} \/ \A j \in 1..(last - 1) : filepath[j] = "."
       THEN <<filepath, <<>>>>
       ELSE <<SubSeq(filepath, 1, last - 1), SubSeq(filepath, last, Len(filepath))>>

RECURSIVE unique_loop(_, _, _, _, _)
\* the while loop of ensure_unique_filename
unique_loop(base, ext, counter, new_filepath, dir) ==
    IF new_filepath \in dir
    THEN unique_loop(base, ext, counter + 1,
                     base \o <<"_">> \o DigitsOf(counter) \o ext, dir)
    ELSE new_filepath

\* ensure_unique_filename with the counter started at 0 instead of 1
ensure_unique_filename_from_zero(filepath, dir) ==
    LET be == splitext(filepath)
    IN unique_loop(be[1], be[2], 0, filepath, dir)

\* ensure_unique_filename(filepath) against the directory listing dir
ensure_unique_filename(filepath, dir) ==
    LET be == splitext(filepath)
    IN unique_loop(be[1], be[2], 1, filepath, dir)

\* characters pytubefix drops from a title when it names a download
LibUnsafeChars == invalid_chars \cup {"."}

\* Stream.default_filename: the title without unsafe characters, a dot, the
\* stream's subtype
default_filename(ttl, stream) ==
    SelectSeq(ttl, LAMBDA c : c \notin LibUnsafeChars) \o <<".">> \o stream.ext

(* --------------------------- stream catalogs -------------------------- *)
\* a Stream of the resolver library: its itag, whether it carries video only,
\* audio only or both (progressive), its subtype, and the labels
\* resolution ("720p") and abr ("128kbps"); <<>> stands for None
Mk(itag, kind, ext, resolution, abr) ==
    [itag |-> itag, kind |-> kind, ext |-> ext, resolution |-> resolution, abr |-> abr]

NoStream == Mk(0, "none", <<>>, <<>>, <<>>)

Mp4Ext == <<"m","p","4">>
WebmExt == <<"w","e","b","m">>
M4aExt == <<"m","4","a">>

StreamPool ==
    { Mk(137, "video", Mp4Ext, <<"1","0","8","0","p">>, <<>>),
      Mk(136, "video", Mp4Ext, <<"7","2","0","p">>, <<>>),
      Mk(135, "video", Mp4Ext, <<"4","8","0","p">>, <<>>),
      Mk(247, "video", WebmExt, <<"7","2","0","p">>, <<>>),
      Mk(140, "audio", M4aExt, <<>>, <<"1","2","8","k","b","p","s">>),
      Mk(251, "audio", WebmExt, <<>>, <<"1","6","0","k","b","p","s">>) }

\* the catalogs yt.streams may hold: the pool's streams in any order
Catalogs ==
    {c \in UNION {[1..n -> StreamPool] : n \in 0..MaxStreams} :
        \A i, j \in 1..Len(c) : i # j => c[i] # c[j]}

\* the catalog used while the title and the directory vary; it holds a
\* progressive stream too
SampleCatalog ==
    << Mk(247, "video", WebmExt, <<"7","2","0","p">>, <<>>),
       Mk(136, "video", Mp4Ext, <<"7","2","0","p">>, <<>>),
       Mk(140, "audio", M4aExt, <<>>, <<"1","2","8","k","b","p","s">>),
       Mk(18, "progressive", Mp4Ext, <<"3","6","0","p">>, <<"9","6","k","b","p","s">>) >>

\* StreamQuery.filter tests
is_adaptive(s) == s.kind \in {"video", "audio"}
is_progressive(s) == s.kind = "progressive"
only_video(s) == s.kind = "video"
only_audio(s) == s.kind = "audio"

\* StreamQuery.order_by(attr): the streams that have the attribute, ascending
\* by the number its label spells
order_by_resolution(q) ==
    LET has == SelectSeq(q, LAMBDA s : s.resolution # <<>>)
    IN SortedBy(has, [i \in 1..Len(has) |-> IntOfDigits(has[i].resolution)])

order_by_abr(q) ==
    LET has == SelectSeq(q, LAMBDA s : s.abr # <<>>)
    IN SortedBy(has, [i \in 1..Len(has) |-> IntOfDigits(has[i].abr)])

\* StreamQuery.first()
first(q) == IF q = <<>> THEN NoStream ELSE q[1]

\* get_available_resolutions(yt)
get_available_resolutions(cat) ==
    LET video_streams ==
            Reverse(order_by_resolution(SelectSeq(cat,
                LAMBDA s : is_adaptive(s) /\ s.ext = Mp4Ext /\ only_video(s))))
    IN SortedStrDesc({video_streams[i].resolution : i \in
            {k \in 1..Len(video_streams) : video_streams[k].resolution # <<>>}})

\* select_video_stream without the resolution test: the first adaptive
\* video-only mp4 stream of the catalog
select_video_stream_any(cat, selected) ==
    first(SelectSeq(cat, LAMBDA s : is_adaptive(s) /\ s.ext = Mp4Ext /\ only_video(s)))

\* download_mp4, lines 72-74: the video stream of the selected resolution
select_video_stream(cat, selected) ==
    first(SelectSeq(cat, LAMBDA s :
        is_adaptive(s) /\ s.ext = Mp4Ext /\ only_video(s) /\ s.resolution = selected))

\* download_mp4, lines 81-83: the adaptive audio stream of highest abr
select_audio_stream(cat) ==
    first(Reverse(order_by_abr(SelectSeq(cat,
        LAMBDA s : is_adaptive(s) /\ only_audio(s)))))

\* download_mp3, line 140
select_mp3_stream(cat) ==
    first(Reverse(order_by_abr(SelectSeq(cat, only_audio))))

\* download_youtube, line 9
select_progressive_stream(cat) ==
    first(Reverse(order_by_resolution(SelectSeq(cat,
        LAMBDA s : is_progressive(s) /\ s.ext = Mp4Ext))))

\* download_youtube, line 13
select_first_audio_stream(cat) == first(SelectSeq(cat, only_audio))

(* ------------------------------ inputs --------------------------------- *)
Titles == { <<"s","o","n","g">>, <<"v","i","d","e","o","_","t","e","m","p">>, <<"a",":","b",".","c">>, [i \in 1..(SanitizeLen + 2) |-> "x"] }

DefaultTitle == <<"s","o","n","g">>

\* what the user may type at the resolution prompt
Inputs == { <<"1","0","8","0","p">>, <<"7","2","0","p">>, <<"7","2","0","P">>, <<"a","b","c">> }

\* the name a job gives its final file before de-duplication
FinalExt(j) == IF j = "download_mp4" THEN DotMp4 ELSE DotMp3

\* name<suffix k>.ext as the scripts spell it; k = 0 is the plain name
Numbered(name, k, ext) ==
    IF k = 0 THEN name \o ext ELSE name \o <<"_">> \o DigitsOf(k) \o ext

\* files that may lie in the output directory before the job starts
Candidates(j, ttl) ==
    {Numbered(sanitize_filename(ttl), k, FinalExt(j)) : k \in 0..MaxPre}
        \cup {video_temp_mp4}

(* ------------------------------- state --------------------------------- *)
VARIABLES
    job,                \* the job function called
    output_format,      \* download_youtube's output_format
    ffmpeg_installed,   \* whether "ffmpeg -version" runs
    catalog,            \* yt.streams
    title,              \* yt.title
    fs0,                \* the files of the output directory when the job starts
    fs,                 \* the files of the output directory now
    pc,                 \* the statement the job is at
    result,             \* "running", "returned", or "raised" (an exception left the job)
    out,                \* the messages printed, by the print statement they come from
    trace,              \* the stages entered, in order
    failed,             \* the stage that failed, "" while none has
    resolutions,        \* download_mp4's resolutions
    prompts,            \* invalid answers given to the resolution prompt
    last_input,         \* the last answer typed at the prompt, as typed
    selected_resolution,
    video_stream,
    audio_stream,       \* download_mp4's audio_stream, the other jobs' stream
    video_file,
    audio_file,
    final_file,         \* final_file / mp3_file
    temp_file,          \* download_mp3's temp_file, download_youtube's out_file
    euf_dir,            \* the directory as ensure_unique_filename saw it
    rm_failed,          \* whether an os.remove raised OSError
    written             \* the files the job's downloads wrote

env == <<job, output_format, ffmpeg_installed, catalog, title, fs0>>

prompt_vars == <<resolutions, prompts, last_input, selected_resolution>>

stream_vars == <<video_stream, audio_stream>>

path_vars == <<video_file, audio_file, final_file, temp_file, euf_dir>>

vars == <<env, fs, pc, result, out, trace, failed, prompt_vars, stream_vars,
          path_vars, rm_failed, written>>

\* a local variable that no assignment has reached yet
Unbound == [bound |-> FALSE, path |-> <<>>]

Bound(p) == [bound |-> TRUE, path |-> p]

Jobs == {"download_mp4", "download_mp3", "download_youtube"}

Init ==
    /\ job \in Jobs
    /\ output_format \in (IF job = "download_youtube" THEN {"mp4", "mp3", "avi"}
                          ELSE IF job = "download_mp4" THEN {"mp4"} ELSE {"mp3"})
    /\ ffmpeg_installed \in BOOLEAN
    /\ \/ /\ catalog \in Catalogs
          /\ title = DefaultTitle
          /\ fs0 = {}
       \/ /\ catalog = SampleCatalog
          /\ title \in Titles
          /\ fs0 \in SUBSET Candidates(job, title)
    /\ fs = fs0
    /\ pc = "start"
    /\ result = "running"
    /\ out = <<>>
    /\ trace = <<>>
    /\ failed = ""
    /\ resolutions = <<>>
    /\ prompts = 0
    /\ last_input = <<>>
    /\ selected_resolution = <<>>
    /\ video_stream = NoStream
    /\ audio_stream = NoStream
    /\ video_file = <<>>
    /\ audio_file = <<>>
    /\ final_file = <<>>
    /\ temp_file = Unbound
    /\ euf_dir = {}
    /\ rm_failed = FALSE
    /\ written = {}

(* ------------------------- shared statement forms ---------------------- *)
\* print(msg); return
Return(stage, msgs, fail) ==
    /\ out' = out \o msgs
    /\ pc' = "done"
    /\ result' = "returned"
    /\ trace' = trace \o stage \o <<"END">>
    /\ failed' = IF fail # "" /\ failed = "" THEN fail ELSE failed

\* an exception that no handler of the job catches
Raise(stage, fail) ==
    /\ out' = out
    /\ pc' = "done"
    /\ result' = "raised"
    /\ trace' = trace \o stage \o <<"END">>
    /\ failed' = IF failed = "" THEN fail ELSE failed

\* print(msg) and go on at statement next
Goto(stage, msgs, fail, next) ==
    /\ out' = out \o msgs
    /\ pc' = next
    /\ result' = result
    /\ trace' = trace \o stage
    /\ failed' = IF fail # "" /\ failed = "" THEN fail ELSE failed

\* check_ffmpeg with its result ignored: the variant in which the job goes on
\* without a transcoder
check_ffmpeg_always == TRUE

\* check_ffmpeg()
check_ffmpeg == ffmpeg_installed

(* ----------------------- download_mp4, download_mp3 -------------------- *)
\* lines 42-49 and 129-136: the transcoder check and the output directory,
\* shared by both jobs
Precheck ==
    /\ pc = "start"
    /\ job \in {"download_mp4", "download_mp3"}
    /\ IF ~check_ffmpeg
       THEN Return(<<"PRECHECK">>, <<"ffmpeg_missing">>, "PRECHECK")
       ELSE \E made \in BOOLEAN :
              \* os.makedirs(output_dir, exist_ok=True) may raise OSError
              IF made THEN Goto(<<"PRECHECK">>, <<>>, "", "resolve")
              ELSE Raise(<<"PRECHECK">>, "PRECHECK")
    /\ UNCHANGED <<env, fs, prompt_vars, stream_vars, path_vars, rm_failed, written>>

\* lines 51-55: yt = YouTube(url)
Mp4Resolve ==
    /\ pc = "resolve"
    /\ job = "download_mp4"
    /\ \E outcome \in {"ok", "URLError", "other"} :
         CASE outcome = "ok" -> Goto(<<"RESOLVE">>, <<>>, "", "resolutions")
           [] outcome = "URLError" -> Return(<<"RESOLVE">>, <<"invalid_url">>, "RESOLVE")
           [] OTHER -> Raise(<<"RESOLVE">>, "RESOLVE")
    /\ UNCHANGED <<env, fs, prompt_vars, stream_vars, path_vars, rm_failed, written>>

\* lines 57-64: the catalog is fetched and its resolutions listed
Mp4Resolutions ==
    /\ pc = "resolutions"
    /\ \E outcome \in {"ok", "raise"} :
         IF outcome = "raise"
         THEN /\ Raise(<<>>, "RESOLVE")
              /\ UNCHANGED resolutions
         ELSE /\ resolutions' = get_available_resolutions(catalog)
              /\ IF resolutions' = <<>>
                 THEN Return(<<>>, <<"no_video_streams">>, "SELECT")
                 ELSE Goto(<<>>, <<"available_resolutions">>, "", "prompt")
    /\ UNCHANGED <<env, fs, prompts, last_input, selected_resolution, stream_vars,
                   path_vars, rm_failed, written>>

\* lines 65-92: one answer to the prompt; a valid one selects the streams and
\* computes the paths
Mp4Prompt ==
    /\ pc = "prompt"
    /\ \E inp \in Inputs :
         LET sel == Lower(inp)
             vs == select_video_stream(catalog, sel)
             as == select_audio_stream(catalog)
         IN /\ last_input' = inp
            /\ selected_resolution' = sel
            /\ IF sel \notin Range(resolutions)
               THEN /\ prompts < MaxPrompts
                    /\ prompts' = prompts + 1
                    /\ Goto(<<>>, <<"invalid_resolution">>, "", "prompt")
                    /\ UNCHANGED <<stream_vars, path_vars>>
               ELSE /\ UNCHANGED prompts
                    /\ video_stream' = vs
                    /\ IF vs = NoStream
                       THEN /\ Return(<<>>, <<"no_video_stream_for">>, "SELECT")
                            /\ UNCHANGED <<audio_stream, path_vars>>
                       ELSE /\ audio_stream' = as
                            /\ IF as = NoStream
                               THEN /\ Return(<<>>, <<"no_audio_stream">>, "SELECT")
                                    /\ UNCHANGED path_vars
                               ELSE /\ video_file' = video_temp_mp4
                                    /\ audio_file' = audio_temp_m4a
                                    /\ euf_dir' = fs
                                    /\ final_file' = ensure_unique_filename(
                                           sanitize_filename(title) \o DotMp4, fs)
                                    /\ UNCHANGED temp_file
                                    /\ Goto(<<"FINALIZE">>, <<>>, "", "dl_video")
    /\ UNCHANGED <<env, fs, resolutions, rm_failed, written>>

\* Stream.download to the file name: it completes, or it raises and leaves
\* either nothing or a partly written file
Download(name, ok, partial) ==
    /\ fs' = IF ok \/ partial THEN fs \cup {name} ELSE fs
    /\ written' = IF ok \/ partial THEN written \cup {name} ELSE written

\* subprocess.run(ffmpeg_cmd, check=True): exit 0 with the output written, or
\* a non-zero exit with the output file created or not
Transcoded(target, ok, created) ==
    IF ok \/ created THEN fs \cup {target} ELSE fs

\* Mp4DownloadVideo with the failure swallowed at the download: the variant
\* in which the job goes on to the next stage after a failed video download
Mp4DownloadVideo_goes_on ==
    /\ pc = "dl_video"
    /\ \E ok \in BOOLEAN, partial \in BOOLEAN :
         /\ Download(video_file, ok, partial)
         /\ IF ok
            THEN Goto(<<"DOWNLOAD_VIDEO">>, <<"downloading_video">>, "", "dl_audio")
            ELSE Goto(<<"DOWNLOAD_VIDEO">>, <<"downloading_video", "error_download_merge">>,
                      "DOWNLOAD_VIDEO", "dl_audio")
    /\ UNCHANGED <<env, prompt_vars, stream_vars, path_vars, rm_failed>>

\* lines 95-96, and 116-117 when the download raises
Mp4DownloadVideo ==
    /\ pc = "dl_video"
    /\ \E ok \in BOOLEAN, partial \in BOOLEAN :
         /\ Download(video_file, ok, partial)
         /\ IF ok
            THEN Goto(<<"DOWNLOAD_VIDEO">>, <<"downloading_video">>, "", "dl_audio")
            ELSE Goto(<<"DOWNLOAD_VIDEO">>, <<"downloading_video", "error_download_merge">>,
                      "DOWNLOAD_VIDEO", "cleanup")
    /\ UNCHANGED <<env, prompt_vars, stream_vars, path_vars, rm_failed>>

\* lines 98-99, and 116-117 when the download raises
Mp4DownloadAudio ==
    /\ pc = "dl_audio"
    /\ job = "download_mp4"
    /\ \E ok \in BOOLEAN, partial \in BOOLEAN :
         /\ Download(audio_file, ok, partial)
         /\ IF ok
            THEN Goto(<<"DOWNLOAD_AUDIO">>, <<"downloading_audio">>, "", "merge")
            ELSE Goto(<<"DOWNLOAD_AUDIO">>, <<"downloading_audio", "error_download_merge">>,
                      "DOWNLOAD_AUDIO", "cleanup")
    /\ UNCHANGED <<env, prompt_vars, stream_vars, path_vars, rm_failed>>

\* lines 101-115: ffmpeg merges the two temporary files into final_file
Mp4Merge ==
    /\ pc = "merge"
    /\ job = "download_mp4"
    /\ \E ok \in BOOLEAN, created \in BOOLEAN :
         /\ fs' = Transcoded(final_file, ok, created)
         /\ IF ok
            THEN Goto(<<"MERGE">>, <<"merge_complete">>, "", "cleanup")
            ELSE Goto(<<"MERGE">>, <<"ffmpeg_merge_failed">>, "MERGE", "cleanup")
    /\ UNCHANGED <<env, prompt_vars, stream_vars, path_vars, rm_failed, written>>

\* the warnings of a cleanup loop over the paths, in the loop's order
Warnings(paths, stuck) ==
    SelectSeq([i \in 1..Len(paths) |-> IF paths[i] \in stuck THEN "warning_not_deleted"
                                       ELSE ""], LAMBDA m : m # "")

\* lines 118-125: the finally block; os.remove may raise OSError on any file
Mp4Cleanup ==
    /\ pc = "cleanup"
    /\ job = "download_mp4"
    /\ \E stuck \in SUBSET ({video_file, audio_file} \cap fs) :
         /\ fs' = fs \ ({video_file, audio_file} \ stuck)
         /\ rm_failed' = (stuck # {})
         /\ Return(<<"CLEANUP">>, Warnings(<<video_file, audio_file>>, stuck), "")
    /\ UNCHANGED <<env, prompt_vars, stream_vars, path_vars, written>>

\* lines 138-143, and the handlers 162-165 when the resolver raises
Mp3Resolve ==
    /\ pc = "resolve"
    /\ job = "download_mp3"
    /\ \E outcome \in {"ok", "URLError", "other"} :
         LET stream == select_mp3_stream(catalog)
         IN CASE outcome = "ok" ->
                   /\ audio_stream' = stream
                   /\ IF stream = NoStream
                      THEN Goto(<<"RESOLVE">>, <<"no_audio_stream">>, "SELECT", "cleanup")
                      ELSE Goto(<<"RESOLVE">>, <<>>, "", "dl_audio")
              [] outcome = "URLError" ->
                   /\ Goto(<<"RESOLVE">>, <<"invalid_url">>, "RESOLVE", "cleanup")
                   /\ UNCHANGED audio_stream
              [] OTHER ->
                   /\ Goto(<<"RESOLVE">>, <<"error_download_conversion">>, "RESOLVE", "cleanup")
                   /\ UNCHANGED audio_stream
    /\ UNCHANGED <<env, fs, prompt_vars, video_stream, path_vars, rm_failed, written>>

\* lines 145-147: temp_file is assigned only when the download returns
Mp3Download ==
    /\ pc = "dl_audio"
    /\ job = "download_mp3"
    /\ \E ok \in BOOLEAN, partial \in BOOLEAN :
         LET name == default_filename(title, audio_stream)
         IN /\ Download(name, ok, partial)
            /\ IF ok
               THEN /\ temp_file' = Bound(name)
                    /\ euf_dir' = fs'
                    /\ final_file' = ensure_unique_filename(
                           sanitize_filename(title) \o DotMp3, fs')
                    /\ Goto(<<"DOWNLOAD_AUDIO", "FINALIZE">>, <<>>, "", "merge")
               ELSE /\ UNCHANGED <<temp_file, euf_dir, final_file>>
                    /\ Goto(<<"DOWNLOAD_AUDIO">>, <<"error_download_conversion">>,
                            "DOWNLOAD_AUDIO", "cleanup")
    /\ UNCHANGED <<env, prompt_vars, stream_vars, video_file, audio_file, rm_failed>>

\* lines 149-161: ffmpeg converts temp_file into mp3_file
Mp3Convert ==
    /\ pc = "merge"
    /\ job = "download_mp3"
    /\ \E ok \in BOOLEAN, created \in BOOLEAN :
         /\ fs' = Transcoded(final_file, ok, created)
         /\ IF ok
            THEN Goto(<<"MERGE">>, <<"downloaded_mp3">>, "", "cleanup")
            ELSE Goto(<<"MERGE">>, <<"ffmpeg_conversion_failed">>, "MERGE", "cleanup")
    /\ UNCHANGED <<env, prompt_vars, stream_vars, path_vars, rm_failed, written>>

\* lines 166-171: the finally block reads temp_file, which is unbound when
\* the job left the try block before line 145 completed
Mp3Cleanup ==
    /\ pc = "cleanup"
    /\ job = "download_mp3"
    /\ IF ~temp_file.bound
       THEN /\ Raise(<<"CLEANUP">>, "CLEANUP")
            /\ UNCHANGED <<fs, rm_failed>>
       ELSE \E stuck \in SUBSET ({temp_file.path} \cap fs) :
              /\ fs' = fs \ ({temp_file.path} \ stuck)
              /\ rm_failed' = (stuck # {})
              /\ Return(<<"CLEANUP">>, Warnings(<<temp_file.path>>, stuck), "")
    /\ UNCHANGED <<env, prompt_vars, stream_vars, path_vars, written>>

(* ---------------------------- download_youtube ------------------------- *)
\* Link_to_YT.py lines 7-9, 13, 22-25: resolve and pick the stream
YtResolve ==
    /\ pc = "start"
    /\ job = "download_youtube"
    /\ \E ok \in BOOLEAN :
         IF ~ok
         THEN /\ Return(<<"RESOLVE">>, <<"error">>, "RESOLVE")
              /\ UNCHANGED audio_stream
         ELSE CASE output_format = "mp4" ->
                     /\ audio_stream' = select_progressive_stream(catalog)
                     /\ Goto(<<"RESOLVE">>, <<>>, "", "yt_download")
                [] output_format = "mp3" ->
                     /\ audio_stream' = select_first_audio_stream(catalog)
                     /\ Goto(<<"RESOLVE">>, <<>>, "", "yt_download")
                [] OTHER ->
                     /\ Return(<<"RESOLVE">>, <<"unsupported_format">>, "")
                     /\ UNCHANGED audio_stream
    /\ UNCHANGED <<env, fs, prompt_vars, video_stream, path_vars, rm_failed, written>>

\* Link_to_YT.py lines 10-11, 14: stream.download(); stream is None when the
\* filter matched nothing, and the call then raises AttributeError
YtDownload ==
    /\ pc = "yt_download"
    /\ IF audio_stream = NoStream
       THEN /\ Return(<<>>, <<"error">>, "SELECT")
            /\ UNCHANGED <<fs, written, temp_file>>
       ELSE \E ok \in BOOLEAN, partial \in BOOLEAN :
              LET name == default_filename(title, audio_stream)
                  stage == IF output_format = "mp4" THEN <<"DOWNLOAD_VIDEO">>
                           ELSE <<"DOWNLOAD_AUDIO">>
              IN /\ Download(name, ok, partial)
                 /\ IF ~ok
                    THEN /\ Return(stage, <<"error">>, stage[1])
                         /\ UNCHANGED temp_file
                    ELSE /\ temp_file' = Bound(name)
                         /\ IF output_format = "mp4"
                            THEN Return(stage, <<"downloaded_mp4">>, "")
                            ELSE Goto(stage, <<>>, "", "yt_convert")
    /\ UNCHANGED <<env, prompt_vars, stream_vars, video_file, audio_file, final_file,
                   euf_dir, rm_failed>>

\* Link_to_YT.py lines 15-21: write the mp3 beside the download, then remove
\* the download; any exception is printed by the handler of line 24
YtConvert ==
    /\ pc = "yt_convert"
    /\ \E ok \in BOOLEAN, created \in BOOLEAN, stuck \in BOOLEAN :
         LET mp3_file == splitext(temp_file.path)[1] \o DotMp3
             converted == Transcoded(mp3_file, ok, created)
         IN /\ final_file' = mp3_file
            /\ IF ~ok
               THEN /\ Return(<<"FINALIZE", "MERGE">>, <<"error">>, "MERGE")
                    /\ stuck = FALSE
                    /\ fs' = converted
                    /\ UNCHANGED rm_failed
               ELSE /\ rm_failed' = stuck
                    /\ fs' = IF stuck THEN converted ELSE converted \ {temp_file.path}
                    /\ Return(<<"FINALIZE", "MERGE", "CLEANUP">>,
                              IF stuck THEN <<"error">> ELSE <<"downloaded_mp3">>, "")
    /\ UNCHANGED <<env, prompt_vars, stream_vars, video_file, audio_file, temp_file,
                   euf_dir, written>>

(* ------------------------------ behaviours ----------------------------- *)
Next ==
    \/ Precheck
    \/ Mp4Resolve
    \/ Mp4Resolutions
    \/ Mp4Prompt
    \/ Mp4DownloadVideo
    \/ Mp4DownloadAudio
    \/ Mp4Merge
    \/ Mp4Cleanup
    \/ Mp3Resolve
    \/ Mp3Download
    \/ Mp3Convert
    \/ Mp3Cleanup
    \/ YtResolve
    \/ YtDownload
    \/ YtConvert

Spec == Init /\ [][Next]_vars

(* ------------------------------ properties ----------------------------- *)
MainJob == job \in {"download_mp4", "download_mp3"}

Done == pc = "done"

\* the audio-only streams of the catalog
AudioOnly == {s \in Range(catalog) : s.kind = "audio"}

\* position of a stage in the pipeline's order; FINALIZE (the computation of
\* the final path) is placed by its own condition
Rank(stage) ==
    CASE stage = "PRECHECK" -> 1
      [] stage = "RESOLVE" -> 2
      [] stage = "DOWNLOAD_VIDEO" -> 3
      [] stage = "DOWNLOAD_AUDIO" -> 4
      [] stage = "MERGE" -> 5
      [] stage = "CLEANUP" -> 6
      [] stage = "END" -> 7
      [] OTHER -> 0

Stages == SelectSeq(trace, LAMBDA st : st # "FINALIZE")

Before(a, b) == \E i, j \in 1..Len(trace) : i < j /\ trace[i] = a /\ trace[j] = b

\* C1: once a job of download_mp4 or download_mp3 has completed, and no file
\* removal failed, no temporary file the job wrote is left in the directory
C1_NoTempFileLeft ==
    (MainJob /\ Done /\ ~rm_failed) => written \cap fs = {}

\* C2: when every download succeeded and the transcoder failed, then after the
\* job neither temporary file nor the final output file exists
C2_MergeFailureLeavesNothing ==
    (MainJob /\ Done /\ failed = "MERGE" /\ ~rm_failed) =>
        /\ written \cap fs = {}
        /\ final_file \notin fs

\* C3: every job ends by returning normally with a message printed; no
\* exception leaves download_mp4, download_mp3 or download_youtube
C3_NoExceptionEscapes ==
    Done => (result = "returned" /\ out # <<>>)

\* C4: when check_ffmpeg fails, download_mp4 and download_mp3 report it and
\* return: no resolve or download stage is ever entered, no file is created
C4_PrecheckFailureStopsJob ==
    (MainJob /\ ~ffmpeg_installed) =>
        /\ pc \in {"start", "done"}
        /\ \A i \in 1..Len(trace) : trace[i] \in {"PRECHECK", "END"}
        /\ fs = fs0 /\ written = {} /\ final_file = <<>>
        /\ Done => (result = "returned" /\ out = <<"ffmpeg_missing">>)

C4_Witness ==
    MainJob /\ ~ffmpeg_installed /\ Done /\ trace = <<"PRECHECK", "END">>

\* C5: a job's stages are entered in the order PRECHECK, DOWNLOAD(video),
\* DOWNLOAD(audio), MERGE/CONVERT, CLEANUP, END, none twice; the transcoder runs
\* only after every download succeeded and after the final path was computed;
\* CLEANUP follows the transcoder or the failure that pre-empted it
C5_StagesInOrder ==
    MainJob =>
        /\ \A i, j \in 1..Len(Stages) : i < j => Rank(Stages[i]) < Rank(Stages[j])
        /\ trace # <<>> => trace[1] = "PRECHECK"
        /\ \A i \in 1..Len(trace) : trace[i] = "END" => (i = Len(trace) /\ Done)
        /\ Done => trace[Len(trace)] = "END"
        /\ (\E i \in 1..Len(trace) : trace[i] = "MERGE") =>
             /\ Before("FINALIZE", "MERGE")
             /\ Before("DOWNLOAD_AUDIO", "MERGE")
             /\ failed \in {"", "MERGE"}
             /\ IF job = "download_mp4"
                THEN Before("DOWNLOAD_VIDEO", "MERGE")
                     /\ {video_file, audio_file} \subseteq written
                ELSE temp_file.bound /\ temp_file.path \in written
        /\ (\E i \in 1..Len(trace) : trace[i] = "CLEANUP") =>
             \/ Before("MERGE", "CLEANUP")
             \/ failed \in {"RESOLVE", "SELECT", "DOWNLOAD_VIDEO", "DOWNLOAD_AUDIO"}

C5_Witness ==
    /\ job = "download_mp4" /\ Done
    /\ trace = <<"PRECHECK", "RESOLVE", "FINALIZE", "DOWNLOAD_VIDEO", "DOWNLOAD_AUDIO",
                 "MERGE", "CLEANUP", "END">>

\* C6: get_available_resolutions lists the distinct resolutions of the adaptive
\* video-only mp4 streams in descending order of their numeric value
C6_ResolutionsNumericDescending ==
    (job = "download_mp4" /\ pc = "prompt") =>
        /\ Range(resolutions) =
             {s.resolution : s \in {x \in Range(catalog) : x.kind = "video" /\ x.ext = Mp4Ext}}
        /\ \A i, j \in 1..Len(resolutions) :
             i < j => IntOfDigits(resolutions[i]) > IntOfDigits(resolutions[j])

\* C7: ensure_unique_filename returns a path at which no file exists: the
\* plain name when it is free, and name_N.ext when name.ext, name_1.ext, ...,
\* name_(N-1).ext exist and name_N.ext does not
C7_EnsureUniqueFilename ==
    (MainJob /\ final_file # <<>>) =>
        LET name == sanitize_filename(title)
            ext == FinalExt(job)
        IN /\ final_file \notin euf_dir
           /\ Numbered(name, 0, ext) \notin euf_dir => final_file = Numbered(name, 0, ext)
           /\ \A N \in 1..(MaxPre + 2) :
                ( /\ \A k \in 0..(N - 1) : Numbered(name, k, ext) \in euf_dir
                  /\ Numbered(name, N, ext) \notin euf_dir )
                => final_file = Numbered(name, N, ext)

C7_Witness ==
    /\ MainJob /\ final_file # <<>>
    /\ {Numbered(sanitize_filename(title), k, FinalExt(job)) : k \in 0..1} \subseteq euf_dir
    /\ final_file = Numbered(sanitize_filename(title), 2, FinalExt(job))

\* what C8 says of the streams chosen for the resolution label sel
ChosenFor(sel) ==
    /\ sel \in Range(resolutions)
    /\ video_stream \in Range(catalog)
    /\ video_stream.kind = "video" /\ video_stream.ext = Mp4Ext
    /\ video_stream.resolution = sel
    /\ audio_stream \in AudioOnly
    /\ \A s \in AudioOnly : IntOfDigits(s.abr) <= IntOfDigits(audio_stream.abr)

\* C8 as amended: download_mp4 leaves the resolution prompt only with an input
\* whose lower-cased form is an available resolution (any other input re-prompts
\* and changes nothing else), and it then downloads the adaptive video-only mp4
\* stream of that lower-cased resolution and the audio-only stream of highest
\* abr, whatever the order of the catalog
C8_SelectionMatchesLoweredInput ==
    job = "download_mp4" =>
        /\ pc = "prompt" =>
             /\ prompts > 0 => Lower(last_input) \notin Range(resolutions)
             /\ video_stream = NoStream /\ audio_stream = NoStream
             /\ video_file = <<>> /\ audio_file = <<>> /\ final_file = <<>>
             /\ fs = fs0 /\ written = {}
        /\ video_file # <<>> => ChosenFor(Lower(last_input))

C8_Witness ==
    /\ job = "download_mp4" /\ pc = "merge" /\ prompts > 0
    /\ Len(resolutions) = 2
    /\ Cardinality(AudioOnly) = 2
    /\ {video_file, audio_file} \subseteq fs

\* C8 as stated: the input itself is a member of the available resolutions and
\* the video stream downloaded has the input as its resolution
C8_SelectionMatchesInput ==
    (job = "download_mp4" /\ video_file # <<>>) => ChosenFor(last_input)

\* C9: a job asked for MP3 picks the audio-only stream of highest abr among
\* all audio-only streams, in download_mp3 and in download_youtube
C9_Mp3PicksHighestAbr ==
    (output_format = "mp3" /\ audio_stream # NoStream) =>
        /\ audio_stream \in AudioOnly
        /\ \A s \in AudioOnly : IntOfDigits(s.abr) <= IntOfDigits(audio_stream.abr)

\* C10: the final output path of download_mp4 differs from both of the job's
\* temporary file paths
C10_FinalDistinctFromTemps ==
    (job = "download_mp4" /\ final_file # <<>>) =>
        final_file \notin {video_file, audio_file}
====
